---- MODULE Spec2Model ----
(***************************************************************************)
(* Detection-to-hazard aggregation of hazard-aware-map (backend/app).      *)
(*                                                                         *)
(* The committed database (tables detections and hazards) is shared by     *)
(* the upload endpoint and by the requests that run process_detections.    *)
(* Every request works in its own session: what it adds or changes is      *)
(* pending in the session until its single commit; a request that raises   *)
(* before the commit leaves nothing behind.                                *)
(*                                                                         *)
(* Encoding of numbers (no floating point):                                *)
(*   latitude    metres of arc along one meridian (longitude is 0), so the *)
(*               great-circle distance of two points is |lat1 - lat2| m    *)
(*   magnitude   tenths of g                                               *)
(*   severity    hundredths (0 .. 1000 is 0.00 .. 10.00)                   *)
(*   confidence  hundredths (0 .. 100 is 0.00 .. 1.00)                     *)
(*   accuracy    metres                                                    *)
(*   timestamp   days                                                      *)
(***************************************************************************)
EXTENDS Integers, Sequences, FiniteSets, TLC

\* ------------------------------------------------------------------ bounds
MaxDets == 4
MaxHazardIds == 2
MaxBatch == 2
MaxPts == 7
MaxRuns == 2
MaxMags == 3
MaxCount == 8
MaxAlertHazards == 3
MaxVerifs == 3
MaxTicks == 4

\* ------------------------------------------------ configuration (settings)
MIN_DETECTIONS_FOR_HAZARD == 3
SPATIAL_CLUSTER_RADIUS_METERS == 15
MAX_GPS_ACCURACY_METERS == 10
MIN_ALERT_DISTANCE_METERS == 50
MAX_ALERT_DISTANCE_METERS == 1000
ALERT_SUPPRESSION_RADIUS_METERS == 500

\* days without a detection after which a hazard of low confidence is taken
\* for repaired
CONFIDENCE_DECAY_DAYS == 90

\* limit=10000 in process_detections, scaled down so that a store can hold
\* more unprocessed detections than one pass fetches
FetchLimit == 3

\* Earth's radius in metres (haversine_distance) and the divisor of the
\* metres-to-degrees conversion in cluster_detections
EarthRadius == 6371000
MetersPerDegree == 111000

\* hazard_id of a detection that is linked to no hazard (NULL)
Null == 0

\* the slots of the concurrent requests running process_detections; a new
\* request takes the first free slot
Passes == {1, 2}

\* authenticated users that upload
Users == {1, 2}

\* the slots of the concurrent requests running verify_hazard
Requests == {1, 2}

\* a slot that holds no request, no loaded row
NoRequest == <<>>

\* DetectionCreate payloads each user's client sends: user 1 drives past
\* latitude 0, user 2 past a place 5 km north of it where the GPS fix is poor
DetectionCreate(user) ==
    IF user = 1
    THEN { [latitude |-> 0,    magnitude |-> 10, accuracy |-> 5,  timestamp |-> 1] }
    ELSE { [latitude |-> 5000, magnitude |-> 50, accuracy |-> 20, timestamp |-> 2] }

\* latitudes of the points the clustering is run on by itself: a chain of
\* places 800 m apart
LatSlots == {0, 800, 1600, 2400, 3200}

\* min_samples the clustering service is constructed with by itself
\* ("typically 3-5" in process_detections)
ClusterMinSamples == {2, MIN_DETECTIONS_FOR_HAZARD, 4}

\* values of MIN_DETECTIONS_FOR_HAZARD the service is run with (the setting
\* is read from the environment, 3 when it is not set)
MinSamplesChoices == {2, MIN_DETECTIONS_FOR_HAZARD}

VARIABLES
    self_min_samples, \* self.min_samples of the clustering service
    dets,           \* committed table detections: sequence indexed by id
    hazards,        \* committed table hazards: function id -> row
    hazard_seq,     \* next value of the hazards id sequence
    pc,             \* per pass: position in process_detections
    unprocessed,    \* per pass: ids of the rows fetched
    clusters,       \* per pass: clusters returned by cluster_detections
    ci,             \* per pass: index of the next cluster of the loop
    sess_new,       \* per pass: hazards added to the session (flushed)
    sess_link,      \* per pass: pending detection updates, id -> hazard id
    hazards_created,
    detections_processed,
    detection_ids_in_clusters,
    result,         \* per pass: the summary returned
    no_upload,      \* history: no upload since this pass fetched
    took_all,       \* history: this pass fetched every unprocessed row
    no_commit,      \* history: no other pass committed since this pass fetched
    last_pass,      \* history: the two flags of the last committed pass
    cl_lats,        \* clustering run on its own: latitude of point id
    cl_min_samples, \* clustering run on its own: min_samples of the service
    cl_runs,        \* clustering run on its own: calls made so far
    cl_first,       \* clusters returned by the first call
    cl_last,        \* clusters returned by the latest call
    sc_case,        \* scoring run on its own: which score is computed
    sc_a,           \* scoring run on its own: the first input
    sc_b,           \* scoring run on its own: the second input
    sc_out_a,       \* score returned for the first input
    sc_out_b,       \* score returned for the second input
    sc_done,        \* the two scores have been computed
    al_hazards,     \* alerts: the committed table hazards the query reads
    al_speed,       \* alerts: speed_mps of the request
    al_max_alerts,  \* alerts: max_alerts of the request
    al_rows,        \* alerts: rows returned by the spatial query
    al_alerts,      \* alerts: the in-range candidates with their priority
    al_filtered,    \* alerts: what _apply_suppression returned
    al_top,         \* alerts: top_alerts, the alerts the response is built from
    al_response,    \* alerts: the AlertResponse list returned
    al_status,      \* alerts: status code of the response
    al_done,        \* alerts: the request has been answered
    verifications,  \* committed table hazard_verifications (bag of rows)
    vpc,            \* per verify request: position in verify_hazard
    v_req,          \* per verify request: hazard_id, user and is_valid
    v_hazard,       \* per verify request: the hazard row it loaded
    v_resp,         \* per verify request: status code of the response
    v_overlap,      \* history: two verify requests have run concurrently
    now             \* the clock datetime.utcnow() reads, in days

vars == <<self_min_samples, dets, hazards, hazard_seq, pc, unprocessed, clusters, ci, sess_new,
          sess_link, hazards_created, detections_processed,
          detection_ids_in_clusters, result, no_upload, took_all, no_commit,
          last_pass, cl_lats, cl_min_samples, cl_runs, cl_first, cl_last,
          sc_case, sc_a, sc_b, sc_out_a, sc_out_b, sc_done,
          al_hazards, al_speed, al_max_alerts, al_rows, al_alerts,
          al_filtered, al_top, al_response, al_status, al_done,
          verifications, vpc, v_req, v_hazard, v_resp, v_overlap, now>>

cl_vars == <<cl_lats, cl_min_samples, cl_runs, cl_first, cl_last>>

db_vars == <<self_min_samples, dets, hazards, hazard_seq, pc, unprocessed,
             clusters, ci, sess_new, sess_link, hazards_created,
             detections_processed, detection_ids_in_clusters, result,
             no_upload, took_all, no_commit, last_pass>>

sc_vars == <<sc_case, sc_a, sc_b, sc_out_a, sc_out_b, sc_done>>

al_vars == <<al_hazards, al_speed, al_max_alerts, al_rows, al_alerts,
             al_filtered, al_top, al_response, al_status, al_done>>

vf_vars == <<verifications, vpc, v_req, v_hazard, v_resp, v_overlap, now>>

store == <<dets, hazards>>

\* ----------------------------------------------------------------- helpers
Abs(x) == IF x < 0 THEN -x ELSE x

Min(a, b) == IF a < b THEN a ELSE b

Range(s) == { s[i] : i \in 1..Len(s) }

RECURSIVE SumOver(_, _)
SumOver(S, f) ==
    IF S = {} THEN 0
    ELSE LET x == CHOOSE y \in S : TRUE
         IN  f[x] + SumOver(S \ {x}, f)

MaxOver(S, f) == CHOOSE m \in { f[x] : x \in S } : \A x \in S : f[x] <= m

MinOver(S, f) == CHOOSE m \in { f[x] : x \in S } : \A x \in S : m <= f[x]

\* round(a / b) for a >= 0, b > 0
RoundDiv(a, b) == (2 * a + b) \div (2 * b)

DetIds == 1..Len(dets)

\* ---------------------------------------------- SpatialClusteringService
\* eps_degrees = eps_meters / 111000.0, handed to DBSCAN as eps
\* (as a fraction: numerator and denominator)
eps_degrees(eps_meters) == <<eps_meters, MetersPerDegree>>

\* metric="haversine": the angle between the two points in radians, which
\* is their great-circle distance over the Earth's radius
haversine_metric(a, b) == <<Abs(a[1] - b[1]), EarthRadius>>

\* haversine_metric(a, b) <= eps, both as fractions
WithinEps(a, b, eps) == haversine_metric(a, b)[1] * eps[2]
                          <= eps[1] * haversine_metric(a, b)[2]

\* DBSCAN: neighborhoods[i], the indices within eps of point i (i included)
Neighborhoods(detections, eps) ==
    [i \in 1..Len(detections) |->
        { j \in 1..Len(detections) :
            WithinEps(detections[i], detections[j], eps) }]

CoreSamples_strict(neighborhoods, min_samples) ==
    [i \in DOMAIN neighborhoods |->
        Cardinality(neighborhoods[i]) > min_samples]

\* DBSCAN: core samples have at least min_samples points in their
\* neighborhood
CoreSamples(neighborhoods, min_samples) ==
    [i \in DOMAIN neighborhoods |->
        Cardinality(neighborhoods[i]) >= min_samples]

\* the indices of S appended to the stack in ascending order
RECURSIVE Push(_, _)
Push(stack, S) ==
    IF S = {} THEN stack
    ELSE LET v == CHOOSE x \in S : \A y \in S : x <= y
         IN  Push(Append(stack, v), S \ {v})

\* DBSCAN inner loop: depth-first expansion of cluster label_num from the
\* point i; stack holds the indices still to visit
RECURSIVE ExpandCluster(_, _, _, _, _, _)
ExpandCluster(is_core, neighborhoods, i, stack, labels, label_num) ==
    LET unlabelled == labels[i] = -1
        labels1 == IF unlabelled THEN [labels EXCEPT ![i] = label_num]
                   ELSE labels
        stack1 == IF unlabelled /\ is_core[i]
                  THEN Push(stack, { v \in neighborhoods[i] : labels1[v] = -1 })
                  ELSE stack
    IN  IF stack1 = <<>> THEN labels1
        ELSE ExpandCluster(is_core, neighborhoods, stack1[Len(stack1)],
                           SubSeq(stack1, 1, Len(stack1) - 1),
                           labels1, label_num)

\* DBSCAN outer loop: points are visited in input order; an unlabelled core
\* point starts the next cluster
RECURSIVE dbscan_inner(_, _, _, _, _)
dbscan_inner(is_core, neighborhoods, i, labels, label_num) ==
    IF i > Len(labels) THEN labels
    ELSE IF labels[i] # -1 \/ ~is_core[i]
         THEN dbscan_inner(is_core, neighborhoods, i + 1, labels, label_num)
         ELSE dbscan_inner(is_core, neighborhoods, i + 1,
                           ExpandCluster(is_core, neighborhoods, i, <<>>,
                                         labels, label_num),
                           label_num + 1)

\* DBSCAN(eps, min_samples, metric="haversine").fit_predict(coords_rad)
fit_predict(detections, eps, min_samples) ==
    LET neighborhoods == Neighborhoods(detections, eps)
        is_core == CoreSamples(neighborhoods, min_samples)
    IN  dbscan_inner(is_core, neighborhoods, 1,
                     [i \in 1..Len(detections) |-> -1], 0)

\* the keys of the dict clusters, in insertion order
RECURSIVE LabelOrder(_, _, _)
LabelOrder(labels, i, seen) ==
    IF i > Len(labels) THEN seen
    ELSE IF labels[i] = -1 \/ labels[i] \in Range(seen)
         THEN LabelOrder(labels, i + 1, seen)
         ELSE LabelOrder(labels, i + 1, Append(seen, labels[i]))

\* clusters[label]: the ids with that label, in input order
RECURSIVE IdsOfLabel(_, _, _, _)
IdsOfLabel(detections, labels, label, i) ==
    IF i > Len(detections) THEN <<>>
    ELSE IF labels[i] = label
         THEN <<detections[i][3]>> \o IdsOfLabel(detections, labels, label, i + 1)
         ELSE IdsOfLabel(detections, labels, label, i + 1)

\* detections: sequence of <<latitude, longitude, detection_id>>
cluster_detections(detections, eps_meters, min_samples) ==
    IF Len(detections) < min_samples THEN <<>>
    ELSE LET labels == fit_predict(detections, eps_degrees(eps_meters),
                                   min_samples)
             order == LabelOrder(labels, 1, <<>>)
         IN  [k \in 1..Len(order) |->
                 IdsOfLabel(detections, labels, order[k], 1)]

\* centroid latitude: np.mean of the members' latitudes
calculate_cluster_centroid(lats) == RoundDiv(SumOver(DOMAIN lats, lats), Cardinality(DOMAIN lats))

\* magnitudes: function member -> magnitude (tenths of g); the result is
\* round(min(10, (0.7 * mean + 0.3 * max) / 5 * 10), 2) in hundredths
calculate_cluster_severity(magnitudes) ==
    IF DOMAIN magnitudes = {} THEN 0
    ELSE LET n == Cardinality(DOMAIN magnitudes)
             total == SumOver(DOMAIN magnitudes, magnitudes)
             max_magnitude == MaxOver(DOMAIN magnitudes, magnitudes)
         IN  Min(1000, RoundDiv(2 * (7 * total + 3 * max_magnitude * n), n))

\* haversine_distance(lat1, lon1, lat2, lon2) in metres: both points are on
\* the meridian of longitude 0 and latitudes are metres of arc, so R * c is
\* the difference of the two latitudes
haversine_distance(lat1, lat2) == Abs(lat2 - lat1)

\* ------------------------------------------------ HazardValidationService
is_outlier_at_limit(magnitude, accuracy, cluster_magnitudes) ==
    LET n == Cardinality(DOMAIN cluster_magnitudes)
        s == SumOver(DOMAIN cluster_magnitudes, cluster_magnitudes)
        q == SumOver(DOMAIN cluster_magnitudes,
                     [x \in DOMAIN cluster_magnitudes |->
                         cluster_magnitudes[x] * cluster_magnitudes[x]])
    IN  IF accuracy >= MAX_GPS_ACCURACY_METERS THEN TRUE
        ELSE IF n >= 3 /\ n * q - s * s > 0
                  /\ 4 * (n * magnitude - s) * (n * magnitude - s)
                       > 25 * (n * q - s * s)
             THEN TRUE
             ELSE FALSE

\* cluster_magnitudes: function member -> magnitude.  With n values of sum
\* s and sum of squares q, np.std is sqrt(n*q - s*s) / n and the mean s / n,
\* so |magnitude - mean| / std > 2.5 reads
\* 4 * (n*magnitude - s)^2 > 25 * (n*q - s*s)
is_outlier(magnitude, accuracy, cluster_magnitudes) ==
    LET n == Cardinality(DOMAIN cluster_magnitudes)
        s == SumOver(DOMAIN cluster_magnitudes, cluster_magnitudes)
        q == SumOver(DOMAIN cluster_magnitudes,
                     [x \in DOMAIN cluster_magnitudes |->
                         cluster_magnitudes[x] * cluster_magnitudes[x]])
    IN  IF accuracy > MAX_GPS_ACCURACY_METERS THEN TRUE
        ELSE IF n >= 3 /\ n * q - s * s > 0
                  /\ 4 * (n * magnitude - s) * (n * magnitude - s)
                       > 25 * (n * q - s * s)
             THEN TRUE
             ELSE FALSE

\* calculate_confidence_score, in thousandths: detection count (up to 0.4),
\* unique users (up to 0.3), recency (0.2 down to 0.05) and the share of
\* positive verifications (times 0.1), capped at 1 and rounded to three
\* decimals
calculate_confidence_score(detection_count, unique_user_count, days_since_last_detection, positive_verifications, total_verifications) ==
    LET detection_score == Min(400, 40 * detection_count)
        user_score == Min(300, 60 * unique_user_count)
        recency_score == IF days_since_last_detection <= 7 THEN 200
                         ELSE IF days_since_last_detection <= 30 THEN 150
                         ELSE IF days_since_last_detection <= 60 THEN 100
                         ELSE 50
        verification_score ==
            IF total_verifications > 0
            THEN RoundDiv(100 * positive_verifications, total_verifications)
            ELSE 0
    IN  Min(1000, detection_score + user_score + recency_score
                     + verification_score)

\* timedelta.days: the whole days of a difference of two datetimes given in
\* hours, rounded down
HoursPerDay == 24

days(delta_hours) == delta_hours \div HoursPerDay

should_deactivate_hazard_at_window(utcnow, last_detected, confidence) ==
    LET days_old == days(utcnow - last_detected)
    IN  IF days_old >= CONFIDENCE_DECAY_DAYS /\ confidence < 300
        THEN TRUE
        ELSE FALSE

\* should_deactivate_hazard: utcnow is what datetime.utcnow() returns and
\* last_detected the argument, both in hours; confidence in thousandths
should_deactivate_hazard(utcnow, last_detected, confidence) ==
    LET days_old == days(utcnow - last_detected)
    IN  IF days_old > CONFIDENCE_DECAY_DAYS /\ confidence < 300
        THEN TRUE
        ELSE FALSE

\* ------------------------------------------------------------ the database
\* Detection(...) of create_detections_batch: processed=False, no hazard
NewDetection(user, d) ==
    [user_id |-> user, latitude |-> d.latitude, longitude |-> 0,
     accuracy |-> d.accuracy, magnitude |-> d.magnitude,
     timestamp |-> d.timestamp, processed |-> FALSE, hazard_id |-> Null]

\* .where(Detection.processed == False)
UnprocessedIds == { d \in DetIds : ~dets[d].processed }

\* the orders in which a query without ORDER BY is taken to return the
\* rows S: ascending and descending id
RECURSIVE Ascending(_)
Ascending(S) ==
    IF S = {} THEN <<>>
    ELSE LET m == CHOOSE x \in S : \A y \in S : x <= y
         IN  <<m>> \o Ascending(S \ {m})

Reverse(s) == [i \in 1..Len(s) |-> s[Len(s) + 1 - i]]

Rotate(s, r) == [i \in 1..Len(s) |-> s[((i - 1 + r) % Len(s)) + 1]]

RowOrders(S) == { Ascending(S), Reverse(Ascending(S)) }

\* the result sets of select(...).where(processed == False).limit(limit)
FetchedSets(limit) ==
    { B \in SUBSET UnprocessedIds :
        Cardinality(B) = Min(limit, Cardinality(UnprocessedIds)) }

\* [(lat, lon, det_id) for lat, lon, det_id in result.all()]
RowTuples(order) ==
    [i \in 1..Len(order) |->
        <<dets[order[i]].latitude, dets[order[i]].longitude, order[i]>>]

creation_confidence_unclamped(detection_count, unique_users) ==
    detection_count * 10 + unique_users * 20

\* confidence = round(min(1.0, detection_count * 0.1 + unique_users * 0.2), 2)
creation_confidence(detection_count, unique_users) ==
    Min(100, detection_count * 10 + unique_users * 20)

NewHazard_users_as_count(members) ==
    LET lats == [d \in members |-> dets[d].latitude]
        magnitudes == [d \in members |-> dets[d].magnitude]
        timestamps == [d \in members |-> dets[d].timestamp]
        unique_users == Cardinality({ dets[d].user_id : d \in members })
        detection_count == Cardinality(members)
    IN  [latitude |-> calculate_cluster_centroid(lats),
         longitude |-> 0,
         hazard_type |-> "unknown",
         severity |-> calculate_cluster_severity(magnitudes),
         confidence |-> creation_confidence(detection_count, unique_users),
         detection_count |-> unique_users,
         unique_user_count |-> unique_users,
         verification_count |-> 0,
         positive_verifications |-> 0,
         first_detected |-> MinOver(members, timestamps),
         last_detected |-> MaxOver(members, timestamps),
         is_active |-> TRUE,
         is_verified |-> FALSE]

\* Hazard(...) built from the rows of one cluster
NewHazard(members) ==
    LET lats == [d \in members |-> dets[d].latitude]
        magnitudes == [d \in members |-> dets[d].magnitude]
        timestamps == [d \in members |-> dets[d].timestamp]
        unique_users == Cardinality({ dets[d].user_id : d \in members })
        detection_count == Cardinality(members)
    IN  [latitude |-> calculate_cluster_centroid(lats),
         longitude |-> 0,
         hazard_type |-> "unknown",
         severity |-> calculate_cluster_severity(magnitudes),
         confidence |-> creation_confidence(detection_count, unique_users),
         detection_count |-> detection_count,
         unique_user_count |-> unique_users,
         verification_count |-> 0,
         positive_verifications |-> 0,
         first_detected |-> MinOver(members, timestamps),
         last_detected |-> MaxOver(members, timestamps),
         is_active |-> TRUE,
         is_verified |-> FALSE]

LinkedRow_unflagged(row, h) == [row EXCEPT !.hazard_id = h]

\* detection.processed = True; detection.hazard_id = hazard.id
LinkedRow(row, h) == [row EXCEPT !.processed = TRUE, !.hazard_id = h]

NoiseRow_unmarked(row) == row

\* detection.processed = True (hazard_id is not assigned)
NoiseRow(row) == [row EXCEPT !.processed = TRUE]

NoiseIds_all(all_detection_ids, in_clusters) == all_detection_ids

\* the ids the noise loop marks
NoiseIds(all_detection_ids, in_clusters) == all_detection_ids \ in_clusters

\* db.commit(): the pending changes of the session reach the tables
CommittedDets(link, noise) ==
    [d \in DetIds |->
        IF d \in DOMAIN link THEN LinkedRow(dets[d], link[d])
        ELSE IF d \in noise THEN NoiseRow(dets[d])
        ELSE dets[d]]

CommittedHazards_replaced(new) == new

CommittedHazards(new) == new @@ hazards

\* the summary of a pass that found nothing to do
NoopResult ==
    [message |-> "No unprocessed detections found",
     detections_processed |-> 0, hazards_created |-> 0,
     detections_marked_noise |-> 0]

NoResult == [message |-> "none"]

Summary(p) ==
    [message |-> "Successfully processed",
     detections_total |-> Cardinality(unprocessed[p]),
     detections_processed |-> detections_processed[p],
     detections_marked_noise |->
         Cardinality(NoiseIds(unprocessed[p], detection_ids_in_clusters[p])),
     hazards_created |-> hazards_created[p],
     clusters_found |-> Len(clusters[p])]

\* -------------------------------------------------------------------- Init
InitDb ==
    /\ dets = <<>>
    /\ hazards = <<>>
    /\ hazard_seq = 1
    /\ pc = [p \in Passes |-> "idle"]
    /\ unprocessed = [p \in Passes |-> {}]
    /\ clusters = [p \in Passes |-> <<>>]
    /\ ci = [p \in Passes |-> 1]
    /\ sess_new = [p \in Passes |-> <<>>]
    /\ sess_link = [p \in Passes |-> <<>>]
    /\ hazards_created = [p \in Passes |-> 0]
    /\ detections_processed = [p \in Passes |-> 0]
    /\ detection_ids_in_clusters = [p \in Passes |-> {}]
    /\ result = [p \in Passes |-> NoResult]
    /\ no_upload = [p \in Passes |-> FALSE]
    /\ took_all = [p \in Passes |-> FALSE]
    /\ no_commit = [p \in Passes |-> FALSE]
    /\ last_pass = [quiet |-> FALSE, all |-> FALSE]

InitCl ==
    /\ cl_lats = <<>>
    /\ cl_min_samples = MIN_DETECTIONS_FOR_HAZARD
    /\ cl_runs = 0
    /\ cl_first = <<>>
    /\ cl_last = <<>>

\* no score has been asked for
InitSc ==
    /\ sc_case = "none"
    /\ sc_a = <<>>
    /\ sc_b = <<>>
    /\ sc_out_a = 0
    /\ sc_out_b = 0
    /\ sc_done = FALSE

\* no alert request has been made
InitAl ==
    /\ al_hazards = <<>>
    /\ al_speed = 0
    /\ al_max_alerts = 0
    /\ al_rows = <<>>
    /\ al_alerts = <<>>
    /\ al_filtered = <<>>
    /\ al_top = <<>>
    /\ al_response = <<>>
    /\ al_status = 0
    /\ al_done = FALSE

\* table hazard_verifications is empty, no verify request is running; the
\* clock stands at the day of the detections
InitVf ==
    /\ verifications = <<>>
    /\ vpc = [r \in Requests |-> "idle"]
    /\ v_req = [r \in Requests |-> NoRequest]
    /\ v_hazard = [r \in Requests |-> NoRequest]
    /\ v_resp = [r \in Requests |-> 0]
    /\ v_overlap = FALSE
    /\ now = 2

Init ==
    /\ self_min_samples \in MinSamplesChoices
    /\ InitDb
    /\ InitCl
    /\ InitSc
    /\ InitAl
    /\ InitVf

\* ----------------------------------------------------------------- actions
\* POST /detections/batch: every detection of the batch is added, one commit
create_detections_batch(user, batch) ==
    /\ Len(dets) + Len(batch) <= MaxDets
    /\ dets' = dets \o [i \in 1..Len(batch) |-> NewDetection(user, batch[i])]
    /\ no_upload' = [p \in Passes |-> FALSE]
    /\ last_pass' = [last_pass EXCEPT !.quiet = FALSE]
    /\ UNCHANGED <<self_min_samples, hazards, hazard_seq, pc, unprocessed,
                   clusters, ci, sess_new, sess_link, hazards_created,
                   detections_processed, detection_ids_in_clusters, result,
                   took_all, no_commit, cl_vars, sc_vars, al_vars, vf_vars>>

Upload ==
    \E user \in Users, n \in 1..MaxBatch :
        \E batch \in [1..n -> DetectionCreate(user)] :
            create_detections_batch(user, batch)

\* process_detections up to the loop: fetch the unprocessed rows, return at
\* once when there is none, otherwise cluster them
Fetch(p) ==
    /\ pc[p] = "idle"
    /\ \A q \in Passes : q < p => pc[q] # "idle"
    /\ \E B \in FetchedSets(FetchLimit) : \E order \in RowOrders(B) :
        /\ unprocessed' = [unprocessed EXCEPT ![p] = B]
        /\ IF B = {}
           THEN /\ pc' = [pc EXCEPT ![p] = "done"]
                /\ result' = [result EXCEPT ![p] = NoopResult]
                /\ UNCHANGED <<clusters, no_upload, took_all, no_commit>>
           ELSE /\ pc' = [pc EXCEPT ![p] = "loop"]
                /\ LET found == cluster_detections(RowTuples(order),
                                    SPATIAL_CLUSTER_RADIUS_METERS,
                                    self_min_samples)
                   IN  clusters' = [clusters EXCEPT ![p] =
                           [k \in 1..Len(found) |-> Range(found[k])]]
                /\ no_upload' = [no_upload EXCEPT ![p] = TRUE]
                /\ took_all' = [took_all EXCEPT ![p] =
                                    Cardinality(UnprocessedIds) <= FetchLimit]
                /\ no_commit' = [no_commit EXCEPT ![p] = TRUE]
                /\ UNCHANGED result
    /\ UNCHANGED <<self_min_samples, dets, hazards, hazard_seq, ci, sess_new,
                   sess_link, hazards_created, detections_processed,
                   detection_ids_in_clusters, last_pass, cl_vars, sc_vars, al_vars, vf_vars>>

Flush_autocommit(p, id, row) ==
    /\ sess_new' = [sess_new EXCEPT ![p] = (id :> row) @@ @]
    /\ hazards' = (id :> row) @@ hazards

\* db.add(hazard); await db.flush(): the row gets its id and is pending in
\* the session of the pass
Flush(p, id, row) ==
    /\ sess_new' = [sess_new EXCEPT ![p] = (id :> row) @@ @]
    /\ UNCHANGED hazards

\* one iteration of "for cluster_detection_ids in clusters"
ProcessCluster(p) ==
    /\ pc[p] = "loop"
    /\ ci[p] <= Len(clusters[p])
    /\ hazard_seq <= MaxHazardIds
    /\ LET cluster_rows == { d \in DetIds : d \in clusters[p][ci[p]] }
       IN  IF cluster_rows = {}
           THEN UNCHANGED <<hazards, hazard_seq, sess_new, sess_link,
                            hazards_created, detections_processed,
                            detection_ids_in_clusters>>
           ELSE /\ hazard_seq' = hazard_seq + 1
                /\ Flush(p, hazard_seq, NewHazard(cluster_rows))
                /\ sess_link' = [sess_link EXCEPT ![p] =
                                   [d \in cluster_rows |-> hazard_seq] @@ @]
                /\ detection_ids_in_clusters' =
                       [detection_ids_in_clusters EXCEPT ![p] = @ \cup cluster_rows]
                /\ hazards_created' = [hazards_created EXCEPT ![p] = @ + 1]
                /\ detections_processed' =
                       [detections_processed EXCEPT ![p] = @ + Cardinality(cluster_rows)]
    /\ ci' = [ci EXCEPT ![p] = @ + 1]
    /\ UNCHANGED <<self_min_samples, dets, pc, unprocessed, clusters,
                   result, no_upload, took_all, no_commit, last_pass, cl_vars, sc_vars, al_vars, vf_vars>>

\* the locals of a request that has ended
Ended(p) ==
    /\ unprocessed' = [unprocessed EXCEPT ![p] = {}]
    /\ clusters' = [clusters EXCEPT ![p] = <<>>]
    /\ ci' = [ci EXCEPT ![p] = 1]
    /\ sess_new' = [sess_new EXCEPT ![p] = <<>>]
    /\ sess_link' = [sess_link EXCEPT ![p] = <<>>]
    /\ hazards_created' = [hazards_created EXCEPT ![p] = 0]
    /\ detections_processed' = [detections_processed EXCEPT ![p] = 0]
    /\ detection_ids_in_clusters' = [detection_ids_in_clusters EXCEPT ![p] = {}]
    /\ no_upload' = [no_upload EXCEPT ![p] = FALSE]
    /\ took_all' = [took_all EXCEPT ![p] = FALSE]

\* after the loop: the fetched ids that are in no cluster are marked, then
\* await db.commit() and the summary
Commit(p) ==
    /\ pc[p] = "loop"
    /\ ci[p] > Len(clusters[p])
    /\ LET noise == { d \in DetIds :
                       d \in NoiseIds(unprocessed[p], detection_ids_in_clusters[p]) }
       IN  dets' = CommittedDets(sess_link[p], noise)
    /\ hazards' = CommittedHazards(sess_new[p])
    /\ result' = [result EXCEPT ![p] = Summary(p)]
    /\ pc' = [pc EXCEPT ![p] = "done"]
    /\ last_pass' = [quiet |-> no_upload[p], all |-> took_all[p]]
    /\ no_commit' = [q \in Passes |-> FALSE]
    /\ Ended(p)
    /\ UNCHANGED <<self_min_samples, hazard_seq, cl_vars, sc_vars, al_vars, vf_vars>>

\* an exception before the commit (a storage error in a query or a flush):
\* the request ends and the session is closed, what it holds is never
\* committed; the ids drawn from the sequence stay used
Fail(p) ==
    /\ pc[p] = "loop"
    /\ pc' = [pc EXCEPT ![p] = "idle"]
    /\ no_commit' = [no_commit EXCEPT ![p] = FALSE]
    /\ Ended(p)
    /\ UNCHANGED <<self_min_samples, dets, hazards, hazard_seq, result,
                   last_pass, cl_vars, sc_vars, al_vars, vf_vars>>

\* the response is sent and the session closed
Finish(p) ==
    /\ pc[p] = "done"
    /\ pc' = [pc EXCEPT ![p] = "idle"]
    /\ result' = [result EXCEPT ![p] = NoResult]
    /\ no_commit' = [no_commit EXCEPT ![p] = FALSE]
    /\ Ended(p)
    /\ UNCHANGED <<self_min_samples, dets, hazards, hazard_seq, last_pass,
                   cl_vars, sc_vars, al_vars, vf_vars>>

Next ==
    \/ Upload
    \/ \E p \in Passes : Fetch(p)
    \/ \E p \in Passes : ProcessCluster(p)
    \/ \E p \in Passes : Commit(p)
    \/ \E p \in Passes : Fail(p)
    \/ \E p \in Passes : Finish(p)

Spec == Init /\ [][Next]_vars

TypeOK ==
    /\ hazard_seq \in 1..(MaxHazardIds + 1)
    /\ Len(dets) <= MaxDets
    /\ \A p \in Passes : pc[p] \in {"idle", "loop", "done"}

\* --------------------------------------- cluster_detections run by itself
\* the orders in which a batch of ids is handed to cluster_detections:
\* every rotation of the ascending and of the descending order
InputOrders(S) ==
    IF S = {} THEN { <<>> }
    ELSE { Rotate(Ascending(S), r) : r \in 0..(Cardinality(S) - 1) }
         \cup { Rotate(Reverse(Ascending(S)), r) : r \in 0..(Cardinality(S) - 1) }

\* the batches: up to MaxPts points on the chain, ids given from south to
\* north
Batches ==
    UNION { { s \in [1..n -> LatSlots] :
                \A i \in 1..n : \A j \in 1..n : i <= j => s[i] <= s[j] } :
            n \in 0..MaxPts }

InitCluster ==
    /\ self_min_samples = MIN_DETECTIONS_FOR_HAZARD
    /\ InitDb
    /\ cl_lats \in Batches
    /\ cl_min_samples \in ClusterMinSamples
    /\ cl_runs = 0
    /\ cl_first = <<>>
    /\ cl_last = <<>>
    /\ InitSc
    /\ InitAl
    /\ InitVf

\* SpatialClusteringService(min_samples=...).cluster_detections(detections)
\* on the batch: first in ascending id order, then in any of its orders
RunCluster ==
    /\ cl_runs < MaxRuns
    /\ \E order \in IF cl_runs = 0 THEN { Ascending(DOMAIN cl_lats) }
                     ELSE InputOrders(DOMAIN cl_lats) :
          LET detections == [i \in 1..Len(order) |->
                                <<cl_lats[order[i]], 0, order[i]>>]
              found == cluster_detections(detections,
                           SPATIAL_CLUSTER_RADIUS_METERS, cl_min_samples)
          IN  /\ cl_last' = found
              /\ cl_first' = IF cl_runs = 0 THEN found ELSE cl_first
    /\ cl_runs' = cl_runs + 1
    /\ UNCHANGED <<cl_lats, cl_min_samples, db_vars, sc_vars, al_vars, vf_vars>>

NextCluster == RunCluster

SpecCluster == InitCluster /\ [][NextCluster]_vars

\* ------------------------------------------- the two scores by themselves
\* magnitudes (tenths of g) of the detections of a cluster: uploads are
\* validated (magnitude > 0), import_detections_from_file stores the value
\* of the file as it is
Magnitudes == {-10, 5, 10, 50, 200}

\* the magnitude lists of clusters of up to MaxMags detections (the order of
\* a list does not enter the score: lists are taken in ascending order)
MagnitudeLists ==
    UNION { { m \in [1..n -> Magnitudes] :
                \A i \in 1..n : \A j \in 1..n : i <= j => m[i] <= m[j] } :
            n \in 1..MaxMags }

\* detection_count and unique_users of a cluster
CountPairs == (0..MaxCount) \X (0..MaxCount)

InitScores ==
    /\ self_min_samples = MIN_DETECTIONS_FOR_HAZARD
    /\ InitDb
    /\ InitCl
    /\ InitAl
    /\ InitVf
    /\ \/ sc_case = "severity" /\ sc_a \in MagnitudeLists /\ sc_b \in MagnitudeLists
       \/ sc_case = "confidence" /\ sc_a \in CountPairs /\ sc_b \in CountPairs
    /\ sc_out_a = 0
    /\ sc_out_b = 0
    /\ sc_done = FALSE

\* severity = clustering_service.calculate_cluster_severity(magnitudes)
ScoreSeverity ==
    /\ sc_case = "severity"
    /\ ~sc_done
    /\ sc_out_a' = calculate_cluster_severity(sc_a)
    /\ sc_out_b' = calculate_cluster_severity(sc_b)
    /\ sc_done' = TRUE
    /\ UNCHANGED <<sc_case, sc_a, sc_b, db_vars, cl_vars, al_vars, vf_vars>>

\* confidence = round(min(1.0, ...), 2) of process_detections
ScoreConfidence ==
    /\ sc_case = "confidence"
    /\ ~sc_done
    /\ sc_out_a' = creation_confidence(sc_a[1], sc_a[2])
    /\ sc_out_b' = creation_confidence(sc_b[1], sc_b[2])
    /\ sc_done' = TRUE
    /\ UNCHANGED <<sc_case, sc_a, sc_b, db_vars, cl_vars, al_vars, vf_vars>>

NextScores == ScoreSeverity \/ ScoreConfidence

SpecScores == InitScores /\ [][NextScores]_vars

\* ------------------------------------------------------------ AlertService
\* Encoding: the vehicle is at latitude 0 on the meridian of the hazards, so
\* the distance of the spatial query is the hazard's |latitude| in metres;
\* alert distances are tenths of a metre, priorities thousandths.

\* the places of the hazards the query is run against (metres north of the
\* vehicle): two places 100 m apart, two places exactly 500 m apart, one
\* place behind the vehicle
AlertLats == <<-300, 40, 140, 540>>

\* severity and confidence (hundredths) of those hazards
AlertProfiles == <<[severity |-> 100, confidence |-> 50],
                   [severity |-> 800, confidence |-> 100],
                   [severity |-> 1000, confidence |-> 100]>>

\* hazard_type as the query returns it, the stored label as a string: the
\* four values of HazardType, and a label that is none of them (the Enum
\* column persists the member names, "UNKNOWN" for HazardType.UNKNOWN)
AlertTypes == <<"unknown", "pothole", "speed_bump", "rough_road", "UNKNOWN">>

\* the k-th hazard row of the catalogue
AlertHazardRow(k) ==
    LET lat == AlertLats[((k - 1) % Len(AlertLats)) + 1]
        prof == AlertProfiles[(((k - 1) \div Len(AlertLats)) % Len(AlertProfiles)) + 1]
        active == (k - 1) \div (Len(AlertLats) * Len(AlertProfiles)) = 0
        type == AlertTypes[((k - 1) % Len(AlertTypes)) + 1]
    IN  [latitude |-> lat, longitude |-> 0, hazard_type |-> type,
         severity |-> prof.severity, confidence |-> prof.confidence,
         is_active |-> active]

AlertHazardRows == 1..(2 * Len(AlertLats) * Len(AlertProfiles))

\* the committed hazards tables of up to MaxAlertHazards rows (ids are the
\* positions; the rows are listed in catalogue order)
AlertTables ==
    UNION { { [i \in 1..n |-> AlertHazardRow(ks[i])] :
                ks \in { s \in [1..n -> AlertHazardRows] :
                           \A i \in 1..n : \A j \in 1..n : i <= j => s[i] <= s[j] } } :
            n \in 0..MaxAlertHazards }

\* speed_mps and max_alerts of the requests
Speeds == {2, 20, 40, 60}

MaxAlertsChoices == {1, 2}

Max(a, b) == IF a > b THEN a ELSE b

\* calculate_alert_distance: speed * 20 * (0.5 + severity / 10 * 0.5) is
\* speed * (1000 + severity) hundredths of a metre for a severity in
\* hundredths; clamped, then rounded to one decimal (tenths of a metre)
calculate_alert_distance(speed_mps, severity) ==
    LET distance == speed_mps * (1000 + severity)
        clamped == Max(MIN_ALERT_DISTANCE_METERS * 100,
                       Min(MAX_ALERT_DISTANCE_METERS * 100, distance))
    IN  RoundDiv(clamped, 10)

\* calculate_priority_score: severity * confidence * (1 - min(d, max) / max)
\* rounded to three decimals (thousandths)
calculate_priority_score(distance, severity, confidence) ==
    LET max_distance == MAX_ALERT_DISTANCE_METERS
    IN  RoundDiv(severity * confidence * (max_distance - Min(distance, max_distance)),
                 10 * max_distance)

\* ST_Distance(location, point): metres from the vehicle
ST_Distance(row) == haversine_distance(0, row.latitude)

\* WHERE is_active = true AND ST_DWithin(location, point, :radius)
NearbyActive(table, radius) ==
    { h \in DOMAIN table :
        table[h].is_active /\ ST_Distance(table[h]) * 10 <= radius }

\* ORDER BY distance ASC: the orders of the ids S by distance (rows at the
\* same distance come in any order)
ByDistance(table, S) ==
    { o \in [1..Cardinality(S) -> S] :
        /\ \A i \in DOMAIN o : \A j \in DOMAIN o : i # j => o[i] # o[j]
        /\ \A i \in DOMAIN o : \A j \in DOMAIN o :
              i <= j => ST_Distance(table[o[i]]) <= ST_Distance(table[o[j]]) }

\* LIMIT :limit
Limit(rows, limit) == SubSeq(rows, 1, Min(limit, Len(rows)))

\* the result sets of the spatial query
NearbyHazards(table, radius, limit) ==
    { Limit(o, limit) : o \in ByDistance(table, NearbyActive(table, radius)) }

\* the dict appended to alerts for a row of the query
AlertOf(table, h) ==
    [hazard_id |-> h,
     distance |-> ST_Distance(table[h]),
     severity |-> table[h].severity,
     confidence |-> table[h].confidence,
     latitude |-> table[h].latitude,
     longitude |-> table[h].longitude,
     hazard_type |-> table[h].hazard_type,
     priority |-> calculate_priority_score(ST_Distance(table[h]),
                      table[h].severity, table[h].confidence)]

\* if hazard.distance <= alert_distance
InRange(table, h, speed_mps) ==
    ST_Distance(table[h]) * 10
        <= calculate_alert_distance(speed_mps, table[h].severity)

\* the loop "for hazard in hazards": alerts of the rows that are in range,
\* in the order of the rows
RECURSIVE BuildAlerts(_, _, _, _)
BuildAlerts(table, rows, i, speed_mps) ==
    IF i > Len(rows) THEN <<>>
    ELSE IF InRange(table, rows[i], speed_mps)
         THEN <<AlertOf(table, rows[i])>>
                  \o BuildAlerts(table, rows, i + 1, speed_mps)
         ELSE BuildAlerts(table, rows, i + 1, speed_mps)

\* x put into a list that is sorted by priority, descending, behind the
\* entries of the same priority
InsertByPriority(sorted, x) ==
    LET before == { i \in 1..Len(sorted) : sorted[i].priority >= x.priority }
        k == Cardinality(before)
    IN  SubSeq(sorted, 1, k) \o <<x>> \o SubSeq(sorted, k + 1, Len(sorted))

\* sorted(alerts, key=priority, reverse=True): stable
RECURSIVE SortByPriority(_, _, _)
SortByPriority(alerts, i, sorted) ==
    IF i > Len(alerts) THEN sorted
    ELSE SortByPriority(alerts, i + 1, InsertByPriority(sorted, alerts[i]))

\* too_close: the alert is nearer than the suppression radius to a selected one
TooClose(alert, filtered) ==
    \E k \in 1..Len(filtered) :
        haversine_distance(alert.latitude, filtered[k].latitude)
            < ALERT_SUPPRESSION_RADIUS_METERS

RECURSIVE SuppressLoop(_, _, _)
SuppressLoop(sorted_alerts, i, filtered) ==
    IF i > Len(sorted_alerts) THEN filtered
    ELSE IF TooClose(sorted_alerts[i], filtered)
         THEN SuppressLoop(sorted_alerts, i + 1, filtered)
         ELSE SuppressLoop(sorted_alerts, i + 1,
                           Append(filtered, sorted_alerts[i]))

apply_suppression_unsorted(alerts) ==
    IF alerts = <<>> THEN <<>>
    ELSE SuppressLoop(alerts, 1, <<>>)

\* _apply_suppression(alerts)
apply_suppression(alerts) ==
    IF alerts = <<>> THEN <<>>
    ELSE SuppressLoop(SortByPriority(alerts, 1, <<>>), 1, <<>>)

\* filtered_alerts.sort(...); top_alerts = filtered_alerts[:max_alerts]
TopAlerts(filtered_alerts, max_alerts) ==
    Limit(SortByPriority(filtered_alerts, 1, <<>>), max_alerts)

\* the values of HazardTypeEnum
HazardTypeEnum == {"pothole", "speed_bump", "rough_road", "unknown"}

\* type_map.get(hazard_type, "road hazard")
type_map(hazard_type) ==
    IF hazard_type = "pothole" THEN "pothole"
    ELSE IF hazard_type = "speed_bump" THEN "speed bump"
    ELSE IF hazard_type = "rough_road" THEN "rough road"
    ELSE "road hazard"

\* str.capitalize() of the three severity words
capitalize(word) ==
    IF word = "severe" THEN "Severe"
    ELSE IF word = "moderate" THEN "Moderate"
    ELSE "Minor"

\* _generate_alert_message: the four parts of the f-string.  distance is in
\* whole metres: int(distance) is the number itself, distance / 1000 to one
\* decimal is given in tenths of a kilometre; severity in hundredths
generate_alert_message(hazard_type, distance, severity) ==
    LET distance_str == IF distance < 1000
                        THEN <<distance, "m">>
                        ELSE <<RoundDiv(distance, 100), "km">>
        severity_str == IF severity >= 700 THEN "severe"
                        ELSE IF severity >= 400 THEN "moderate"
                        ELSE "minor"
        type_str == type_map(hazard_type)
    IN  <<capitalize(severity_str), type_str, "ahead in", distance_str>>

\* AlertResponse(...) for one alert of top_alerts
AlertResponse(alert) ==
    [hazard_id |-> alert.hazard_id,
     distance |-> alert.distance,
     severity |-> alert.severity,
     confidence |-> alert.confidence,
     latitude |-> alert.latitude,
     longitude |-> alert.longitude,
     hazard_type |-> alert.hazard_type,
     message |-> generate_alert_message(alert.hazard_type, alert.distance,
                                        alert.severity)]

\* HazardTypeEnum(alert["hazard_type"]) raises ValueError for a string that
\* is not a value of the enum
Raises(top_alerts) ==
    \E i \in 1..Len(top_alerts) : top_alerts[i].hazard_type \notin HazardTypeEnum

InitAlerts ==
    /\ self_min_samples = MIN_DETECTIONS_FOR_HAZARD
    /\ InitDb
    /\ InitCl
    /\ InitSc
    /\ InitVf
    /\ al_hazards \in AlertTables
    /\ al_speed \in Speeds
    /\ al_max_alerts \in MaxAlertsChoices
    /\ al_rows = <<>>
    /\ al_alerts = <<>>
    /\ al_filtered = <<>>
    /\ al_top = <<>>
    /\ al_response = <<>>
    /\ al_status = 0
    /\ al_done = FALSE

\* get_alerts_for_route(session, current_lat, current_lon, speed_mps,
\* max_alerts): the query, the candidates in range, the suppression, the
\* top max_alerts by priority and the list of AlertResponse built from
\* them; an exception while the list is built is answered with 500
get_alerts_for_route ==
    /\ ~al_done
    /\ LET search_radius == calculate_alert_distance(al_speed, 1000)
       IN  \E rows \in NearbyHazards(al_hazards, search_radius, al_max_alerts * 2) :
              LET alerts == BuildAlerts(al_hazards, rows, 1, al_speed)
                  filtered_alerts == apply_suppression(alerts)
                  top_alerts == IF rows = <<>> THEN <<>>
                                ELSE TopAlerts(filtered_alerts, al_max_alerts)
              IN  /\ al_rows' = rows
                  /\ al_alerts' = IF rows = <<>> THEN <<>> ELSE alerts
                  /\ al_filtered' = IF rows = <<>> THEN <<>> ELSE filtered_alerts
                  /\ al_top' = top_alerts
                  /\ IF Raises(top_alerts)
                     THEN al_response' = <<>> /\ al_status' = 500
                     ELSE /\ al_response' = [i \in 1..Len(top_alerts) |->
                                                 AlertResponse(top_alerts[i])]
                          /\ al_status' = 200
    /\ al_done' = TRUE
    /\ UNCHANGED <<al_hazards, al_speed, al_max_alerts, db_vars, cl_vars,
                   sc_vars, vf_vars>>

NextAlerts == get_alerts_for_route

SpecAlerts == InitAlerts /\ [][NextAlerts]_vars

\* ------------------------------------------------------------ verify_hazard
\* hazard ids the verify requests name: hazard 1 exists, hazard 2 does not
VerifyHazardIds == {1, 2}

\* HazardVerification(hazard_id, user_id, is_valid)
NewVerification(hazard_id, user_id, is_valid) ==
    [hazard_id |-> hazard_id, user_id |-> user_id, is_valid |-> is_valid]

existing_query_swapped(hazard_id, user_id) ==
    { i \in DOMAIN verifications :
        /\ verifications[i].hazard_id = user_id
        /\ verifications[i].user_id = hazard_id }

\* select(HazardVerification).where(hazard_id == ..., user_id == ...)
existing_query(hazard_id, user_id) ==
    { i \in DOMAIN verifications :
        /\ verifications[i].hazard_id = hazard_id
        /\ verifications[i].user_id = user_id }

\* the state after one aggregation pass over three detections of user 1:
\* hazard 1 is committed with its three detections linked
InitVerify ==
    /\ self_min_samples = MIN_DETECTIONS_FOR_HAZARD
    /\ dets \in { [i \in 1..3 |-> LinkedRow(NewDetection(1, d), 1)] :
                    d \in DetectionCreate(1) }
    /\ hazards = (1 :> NewHazard({1, 2, 3}))
    /\ hazard_seq = 2
    /\ pc = [p \in Passes |-> "idle"]
    /\ unprocessed = [p \in Passes |-> {}]
    /\ clusters = [p \in Passes |-> <<>>]
    /\ ci = [p \in Passes |-> 1]
    /\ sess_new = [p \in Passes |-> <<>>]
    /\ sess_link = [p \in Passes |-> <<>>]
    /\ hazards_created = [p \in Passes |-> 0]
    /\ detections_processed = [p \in Passes |-> 0]
    /\ detection_ids_in_clusters = [p \in Passes |-> {}]
    /\ result = [p \in Passes |-> NoResult]
    /\ no_upload = [p \in Passes |-> FALSE]
    /\ took_all = [p \in Passes |-> FALSE]
    /\ no_commit = [p \in Passes |-> FALSE]
    /\ last_pass = [quiet |-> FALSE, all |-> FALSE]
    /\ InitCl
    /\ InitSc
    /\ InitAl
    /\ InitVf

\* what verify_hazard leaves alone
verify_frame == <<self_min_samples, dets, hazard_seq, pc, unprocessed,
                  clusters, ci, sess_new, sess_link, hazards_created,
                  detections_processed, detection_ids_in_clusters, result,
                  no_upload, took_all, no_commit, last_pass, cl_vars,
                  sc_vars, al_vars, now>>

\* verify_hazard up to "Create verification": the hazard is loaded (404 when
\* there is none), then the verification of this user for it is looked up
\* (400 when there is one; scalar_one_or_none raises when there are several,
\* which is answered with 500); otherwise the request goes on
VerifyCheck(r, hazard_id, user_id, is_valid) ==
    /\ vpc[r] = "idle"
    /\ \A q \in Requests : q < r => vpc[q] # "idle"
    /\ Len(verifications)
           + Cardinality({ q \in Requests : vpc[q] = "checked" }) < MaxVerifs
    /\ v_req' = [v_req EXCEPT ![r] =
                    NewVerification(hazard_id, user_id, is_valid)]
    /\ v_overlap' = (v_overlap \/ \E q \in Requests : vpc[q] = "checked")
    /\ IF hazard_id \notin DOMAIN hazards
       THEN /\ v_resp' = [v_resp EXCEPT ![r] = 404]
            /\ UNCHANGED <<vpc, v_hazard>>
       ELSE IF Cardinality(existing_query(hazard_id, user_id)) > 1
       THEN /\ v_resp' = [v_resp EXCEPT ![r] = 500]
            /\ UNCHANGED <<vpc, v_hazard>>
       ELSE IF existing_query(hazard_id, user_id) # {}
       THEN /\ v_resp' = [v_resp EXCEPT ![r] = 400]
            /\ UNCHANGED <<vpc, v_hazard>>
       ELSE /\ v_resp' = [v_resp EXCEPT ![r] = 0]
            /\ vpc' = [vpc EXCEPT ![r] = "checked"]
            /\ v_hazard' = [v_hazard EXCEPT ![r] = hazards[hazard_id]]
    /\ UNCHANGED <<hazards, verifications, verify_frame>>

\* db.add(new_verification); hazard.verification_count += 1 and, for a
\* positive vote, hazard.positive_verifications += 1, on the row as it was
\* loaded; await db.commit(); 201
VerifyCommit(r) ==
    /\ vpc[r] = "checked"
    /\ verifications' = Append(verifications, v_req[r])
    /\ hazards' = [hazards EXCEPT
           ![v_req[r].hazard_id].verification_count =
               v_hazard[r].verification_count + 1,
           ![v_req[r].hazard_id].positive_verifications =
               IF v_req[r].is_valid
               THEN v_hazard[r].positive_verifications + 1
               ELSE @]
    /\ vpc' = [vpc EXCEPT ![r] = "idle"]
    /\ v_hazard' = [v_hazard EXCEPT ![r] = NoRequest]
    /\ v_resp' = [v_resp EXCEPT ![r] = 201]
    /\ UNCHANGED <<v_req, v_overlap, verify_frame>>

NextVerify ==
    \/ \E r \in Requests, hazard_id \in VerifyHazardIds, user_id \in Users,
          is_valid \in BOOLEAN :
            VerifyCheck(r, hazard_id, user_id, is_valid)
    \/ \E r \in Requests : VerifyCommit(r)

SpecVerify == InitVerify /\ [][NextVerify]_vars

\* --------------------------------------------- the hazards as time passes
\* days that pass in one step of the clock
TickDays == 30

\* time passes.  Nothing of the application runs on a timer: main.py
\* registers the four routers and no background task, and no endpoint calls
\* should_deactivate_hazard or writes is_active
Tick ==
    /\ now < 2 + TickDays * MaxTicks
    /\ now' = now + TickDays
    /\ UNCHANGED <<db_vars, cl_vars, sc_vars, al_vars, verifications, vpc,
                   v_req, v_hazard, v_resp, v_overlap>>

\* the operations that write a committed hazard, and the clock
NextDecay ==
    \/ NextVerify
    \/ Tick

\* time goes on and a request that has begun is carried through
SpecDecay ==
    /\ InitVerify
    /\ [][NextDecay]_vars
    /\ WF_vars(Tick)
    /\ \A r \in Requests : WF_vars(VerifyCommit(r))

\* the confidence of hazard row h as calculate_confidence_score gives it today
ongoing_confidence(h) ==
    calculate_confidence_score(h.detection_count, h.unique_user_count,
                               now - h.last_detected,
                               h.positive_verifications, h.verification_count)

\* ------------------------------------- the pure functions called by themselves
\* hours between last_detected and the call: around the decay window, the
\* 120 days of the documented example, none, and a last_detected ahead of
\* the clock
DecayAges == { HoursPerDay * d + h : d \in {-1, 0, 89, 90, 91, 120}, h \in {0, 23} }

UtcNows == {3000, 3010}

\* ongoing confidences (thousandths) around the threshold 0.3
Confidences == {0, 200, 299, 300, 500, 1000}

DeactivateInputs ==
    { <<t, t - age, c>> : t \in UtcNows, age \in DecayAges, c \in Confidences }

\* GPS accuracies (metres) around MAX_GPS_ACCURACY_METERS
Accuracies == {5, 10, 11}

OutlierInputs ==
    Magnitudes \X Accuracies \X (MagnitudeLists \cup {<<>>})

\* severities (hundredths) that process_detections stores: those of clusters
\* of three detections of one magnitude each, uploaded or imported
StoredSeverities ==
    { calculate_cluster_severity(<<m, m, m>>) : m \in Magnitudes }

\* distance (metres), severity (hundredths) and confidence (hundredths) of a
\* candidate
PriorityInputs ==
    {0, 300, 999, 1000, 1500} \X StoredSeverities \X {0, 50, 100}

InitCalls ==
    /\ self_min_samples = MIN_DETECTIONS_FOR_HAZARD
    /\ InitDb
    /\ InitCl
    /\ InitAl
    /\ InitVf
    /\ \/ sc_case = "deactivate" /\ sc_a \in DeactivateInputs /\ sc_b = sc_a
       \/ sc_case = "outlier" /\ sc_a \in OutlierInputs /\ sc_b = sc_a
       \/ sc_case = "priority" /\ sc_a \in PriorityInputs /\ sc_b \in PriorityInputs
    /\ sc_out_a = 0
    /\ sc_out_b = 0
    /\ sc_done = FALSE

\* should_deactivate_hazard(last_detected, confidence) at the time utcnow
CallDeactivate ==
    /\ sc_case = "deactivate"
    /\ ~sc_done
    /\ sc_out_a' = should_deactivate_hazard(sc_a[1], sc_a[2], sc_a[3])
    /\ sc_out_b' = should_deactivate_hazard(sc_b[1], sc_b[2], sc_b[3])
    /\ sc_done' = TRUE
    /\ UNCHANGED <<sc_case, sc_a, sc_b, db_vars, cl_vars, al_vars, vf_vars>>

\* is_outlier(magnitude, accuracy, cluster_magnitudes): the arguments are
\* read only
CallOutlier ==
    /\ sc_case = "outlier"
    /\ ~sc_done
    /\ sc_out_a' = is_outlier(sc_a[1], sc_a[2], sc_a[3])
    /\ sc_out_b' = is_outlier(sc_b[1], sc_b[2], sc_b[3])
    /\ sc_done' = TRUE
    /\ UNCHANGED <<sc_case, sc_a, sc_b, db_vars, cl_vars, al_vars, vf_vars>>

\* calculate_priority_score(distance, severity, confidence)
CallPriority ==
    /\ sc_case = "priority"
    /\ ~sc_done
    /\ sc_out_a' = calculate_priority_score(sc_a[1], sc_a[2], sc_a[3])
    /\ sc_out_b' = calculate_priority_score(sc_b[1], sc_b[2], sc_b[3])
    /\ sc_done' = TRUE
    /\ UNCHANGED <<sc_case, sc_a, sc_b, db_vars, cl_vars, al_vars, vf_vars>>

NextCalls == CallDeactivate \/ CallOutlier \/ CallPriority

SpecCalls == InitCalls /\ [][NextCalls]_vars

\* ------------------------------------------ passes repeated one after another
\* a pass is started when no other is running
RepeatFetch == \E p \in Passes : Fetch(p) /\ \A q \in Passes : pc[q] = "idle"

\* uploads (as many as the store of the model takes) and passes that run one
\* after the other and meet no storage error
NextRepeat ==
    \/ Upload
    \/ RepeatFetch
    \/ \E p \in Passes : ProcessCluster(p)
    \/ \E p \in Passes : Commit(p)
    \/ \E p \in Passes : Finish(p)

\* a pass that was started runs to its end (when passes are started is up to
\* the caller of the endpoint)
SpecRepeat ==
    /\ Init
    /\ [][NextRepeat]_vars
    /\ WF_vars(\E p \in Passes : ProcessCluster(p))
    /\ WF_vars(\E p \in Passes : Commit(p))
    /\ WF_vars(\E p \in Passes : Finish(p))

\* ------------------------------------------------------ steps of a pass
\* the step in which pass p commits
Committing(p) == pc[p] = "loop" /\ pc'[p] = "done"

\* the step in which pass p fails
Failing(p) == pc[p] = "loop" /\ pc'[p] = "idle"

\* the step in which pass p starts
Starting(p) == pc[p] = "idle" /\ pc'[p] # "idle"

LinkedTo(table, h) == { d \in DOMAIN table : table[d].hazard_id = h }

ClusteredIds(p) == UNION { clusters[p][k] : k \in 1..Len(clusters[p]) }

\* ------------------------------------------------------------------ claims
\* C1: whatever the interleaving of two passes, no detection is counted into
\* the detection_count of two hazards: the detection_count of all hazards
\* add up to the number of detections that are linked to a hazard.
C1_NoDoubleClustering ==
    SumOver(DOMAIN hazards, [h \in DOMAIN hazards |-> hazards[h].detection_count])
        = Cardinality({ d \in DetIds : dets[d].hazard_id # Null })

\* C2: a pass that fails before its commit leaves the committed tables as
\* they are: none of the hazards it flushed exists, no detection points to
\* one of them, and unless another pass committed meanwhile every detection
\* it fetched is still unprocessed with no hazard, ready for a retry.
C2_FailedPassLeavesNoTrace ==
    [][\A p \in Passes : Failing(p) =>
          /\ dets' = dets
          /\ hazards' = hazards
          /\ DOMAIN sess_new[p] \cap DOMAIN hazards' = {}
          /\ \A d \in unprocessed[p] :
                /\ dets'[d].hazard_id \notin DOMAIN sess_new[p]
                /\ no_commit[p] =>
                      ~dets'[d].processed /\ dets'[d].hazard_id = Null]_vars

\* a pass has failed after it had flushed a hazard: an id of the sequence is
\* used, no hazard is committed, the detections wait for the retry
C2_Witness ==
    /\ \A p \in Passes : pc[p] = "idle"
    /\ hazard_seq > 1
    /\ DOMAIN hazards = {}
    /\ UnprocessedIds # {}
    /\ UnprocessedIds = DetIds

\* C3: in every committed state a detection with processed=false has no
\* hazard.
C3_UnprocessedHasNoHazard ==
    \A d \in DetIds : ~dets[d].processed => dets[d].hazard_id = Null

C3_Witness ==
    /\ \E d \in DetIds : ~dets[d].processed
    /\ \E d \in DetIds : dets[d].processed /\ dets[d].hazard_id # Null
    /\ \E d \in DetIds : dets[d].processed /\ dets[d].hazard_id = Null

\* C4: once a detection is processed in a committed state it stays
\* processed and its hazard reference never changes again.
C4_ProcessedIsFinal ==
    [][\A d \in DetIds :
          dets[d].processed =>
              dets'[d].processed /\ dets'[d].hazard_id = dets[d].hazard_id]_vars

C6_OneHazardPerCluster ==
    [][\A p \in Passes : Committing(p) =>
          LET new == DOMAIN hazards' \ DOMAIN hazards
          IN  /\ Cardinality(new) = Len(clusters[p])
              /\ \A k \in 1..Len(clusters[p]) :
                    /\ Cardinality({ h \in new :
                           LinkedTo(dets', h) = clusters[p][k] }) = 1
                    /\ \A h \in new :
                           LinkedTo(dets', h) = clusters[p][k] =>
                               /\ hazards'[h].detection_count
                                      = Cardinality(clusters[p][k])
                               /\ \A d \in clusters[p][k] : dets'[d].processed
              /\ result'[p].hazards_created = result'[p].clusters_found
              /\ result'[p].clusters_found = Len(clusters[p])]_vars

\* a pass has committed a hazard and marked a noise detection
C6_Witness ==
    \E p \in Passes :
        /\ pc[p] = "done"
        /\ result[p] # NoopResult
        /\ result[p].hazards_created >= 1
        /\ result[p].detections_marked_noise >= 1
        /\ \E h \in DOMAIN hazards :
               Cardinality(LinkedTo(dets, h)) = hazards[h].detection_count

\* C7: when a pass commits, every detection it fetched is processed, and
\* those that are in none of its clusters have no hazard.
C7_NoiseIsProcessedUnlinked ==
    [][\A p \in Passes : Committing(p) =>
          \A d \in unprocessed[p] :
              /\ dets'[d].processed
              /\ d \notin ClusteredIds(p) => dets'[d].hazard_id = Null]_vars

\* the detections the outlier filter rejects among those pass p fetched:
\* is_outlier against the magnitudes of the other members of the cluster
RejectedByFilter(p, d) ==
    LET mine == { k \in 1..Len(clusters[p]) : d \in clusters[p][k] }
        others == UNION { clusters[p][k] \ {d} : k \in mine }
    IN  is_outlier(dets[d].magnitude, dets[d].accuracy,
                   [x \in others |-> dets[x].magnitude])

\* C8: when a pass commits, every fetched detection that the outlier filter
\* rejects is processed, has no hazard, and is counted in no hazard.
C8_OutliersAreNotLinked ==
    [][\A p \in Passes : Committing(p) =>
          \A d \in unprocessed[p] :
              RejectedByFilter(p, d) =>
                  /\ dets'[d].processed
                  /\ dets'[d].hazard_id = Null]_vars

\* the clusters of a result, each read as a set of ids
AsSets(found) == { Range(found[k]) : k \in 1..Len(found) }

\* C9: two calls of cluster_detections on the same points in two orders
\* return the same clusters as sets of ids, and so the same noise.
C9_PermutationInvariant ==
    cl_runs >= 2 => AsSets(cl_first) = AsSets(cl_last)

\* reachability of two points of the batch, and the core points, stated on
\* the latitudes
C10_Reach(a, b) ==
    Abs(cl_lats[a] - cl_lats[b]) * MetersPerDegree
        <= SPATIAL_CLUSTER_RADIUS_METERS * EarthRadius

C10_Core(a) ==
    Cardinality({ b \in DOMAIN cl_lats : C10_Reach(a, b) }) >= cl_min_samples

\* C10: a point is in a returned cluster exactly when it is core (at least
\* min_samples points, itself included, are reachable from it) or reachable
\* from a core point; two core points reachable from each other share a
\* cluster; fewer points than min_samples give no cluster.
C10_IsDbscan ==
    cl_runs >= 1 =>
        LET ids == DOMAIN cl_lats
            clustered == UNION AsSets(cl_last)
        IN  /\ \A a \in ids :
                  a \in clustered <=>
                      \E b \in ids : C10_Core(b) /\ C10_Reach(a, b)
            /\ \A a \in ids : \A b \in ids :
                  (C10_Core(a) /\ C10_Core(b) /\ C10_Reach(a, b)) =>
                      \E c \in AsSets(cl_last) : a \in c /\ b \in c
            /\ Len(cl_lats) < cl_min_samples => cl_last = <<>>

\* a result with a core point, a member that is not core, and a noise point
C10_Witness ==
    /\ cl_runs >= 1
    /\ \E a \in UNION AsSets(cl_last) : C10_Core(a)
    /\ \E a \in UNION AsSets(cl_last) : ~C10_Core(a)
    /\ \E a \in DOMAIN cl_lats : a \notin UNION AsSets(cl_last)

\* C11: a point whose great-circle distance to every other point of the
\* batch is more than eps_meters is in none of the returned clusters.
C11_ReachIsEpsMeters ==
    cl_runs >= 1 =>
        \A a \in DOMAIN cl_lats :
            (\A b \in DOMAIN cl_lats \ {a} :
                 haversine_distance(cl_lats[a], cl_lats[b])
                     > SPATIAL_CLUSTER_RADIUS_METERS)
                => a \notin UNION AsSets(cl_last)

\* C12: in every committed state each hazard's detection_count is at least
\* the number of detections that reference the hazard and first_detected is
\* not after last_detected; no step removes a hazard or lowers its
\* detection_count.
C12_HazardInvariants ==
    /\ [](\A h \in DOMAIN hazards :
             /\ hazards[h].detection_count >= Cardinality(LinkedTo(dets, h))
             /\ hazards[h].first_detected <= hazards[h].last_detected)
    /\ [][\A h \in DOMAIN hazards :
             /\ h \in DOMAIN hazards'
             /\ hazards'[h].detection_count >= hazards[h].detection_count]_vars

\* two committed hazards: one referenced by as many detections as it
\* counts, one by fewer
C12_Witness ==
    \E h1 \in DOMAIN hazards : \E h2 \in DOMAIN hazards :
        /\ hazards[h1].detection_count = Cardinality(LinkedTo(dets, h1))
        /\ hazards[h1].detection_count >= 2
        /\ hazards[h2].detection_count > Cardinality(LinkedTo(dets, h2))

\* mean(a) <= mean(b) for two non-empty magnitude lists
C13_MeanLeq(a, b) ==
    SumOver(DOMAIN a, a) * Len(b) <= SumOver(DOMAIN b, b) * Len(a)

C13_MaxLeq(a, b) == MaxOver(DOMAIN a, a) <= MaxOver(DOMAIN b, b)

C14_ConfidenceInRangeMonotone ==
    (sc_done /\ sc_case = "confidence") =>
        /\ 0 <= sc_out_a /\ sc_out_a <= 100
        /\ (sc_a[1] <= sc_b[1] /\ sc_a[2] <= sc_b[2]) => sc_out_a <= sc_out_b

\* a confidence below 1 next to one that the clamp holds at 1
C14_Witness ==
    /\ sc_done
    /\ sc_case = "confidence"
    /\ sc_a[1] <= sc_b[1] /\ sc_a[2] <= sc_b[2]
    /\ sc_out_a > 0 /\ sc_out_a < 100
    /\ sc_out_b = 100
    /\ sc_b[1] * 10 + sc_b[2] * 20 > 100

\* C15: any two alerts accepted by suppression, and so any two alerts of a
\* response, are more than the suppression radius apart.
C15_AcceptedAreApart ==
    al_done =>
        /\ \A i \in DOMAIN al_filtered : \A j \in DOMAIN al_filtered :
              i # j =>
                  haversine_distance(al_filtered[i].latitude,
                                     al_filtered[j].latitude)
                      > ALERT_SUPPRESSION_RADIUS_METERS
        /\ \A i \in DOMAIN al_top : \A j \in DOMAIN al_top :
              i # j =>
                  haversine_distance(al_top[i].latitude, al_top[j].latitude)
                      > ALERT_SUPPRESSION_RADIUS_METERS

C16_MaxPriority == MaxOver(DOMAIN al_alerts, [i \in DOMAIN al_alerts |-> al_alerts[i].priority])

\* C16: every candidate that suppression drops is within the suppression
\* radius of an accepted candidate of at least its priority; a candidate of
\* the highest priority is accepted; of two candidates less than the radius
\* apart only the one of the higher priority is in the result.
C16_HigherPriorityWins ==
    al_done =>
        /\ \A i \in DOMAIN al_alerts :
              (\A k \in DOMAIN al_filtered : al_filtered[k] # al_alerts[i]) =>
                  \E k \in DOMAIN al_filtered :
                      /\ haversine_distance(al_alerts[i].latitude,
                                            al_filtered[k].latitude)
                             <= ALERT_SUPPRESSION_RADIUS_METERS
                      /\ al_filtered[k].priority >= al_alerts[i].priority
        /\ al_alerts # <<>> =>
              /\ al_filtered # <<>>
              /\ al_filtered[1].priority = C16_MaxPriority
        /\ (/\ Len(al_alerts) = 2
            /\ haversine_distance(al_alerts[1].latitude, al_alerts[2].latitude)
                   < ALERT_SUPPRESSION_RADIUS_METERS) =>
              /\ Len(al_top) = 1
              /\ al_top[1].priority = C16_MaxPriority

\* two in-range hazards 100 m apart with different priorities: the response
\* holds the one of the higher priority, which the query returned second
C16_Witness ==
    /\ al_done
    /\ Len(al_alerts) = 2
    /\ haversine_distance(al_alerts[1].latitude, al_alerts[2].latitude) = 100
    /\ al_alerts[1].priority < al_alerts[2].priority
    /\ al_top = <<al_alerts[2]>>

\* the active hazards that are in range of the vehicle
C17_InRangeActive ==
    { h \in DOMAIN al_hazards :
        al_hazards[h].is_active /\ InRange(al_hazards, h, al_speed) }

\* the responses computed over every active hazard within the search radius
C17_Reference ==
    { TopAlerts(apply_suppression(BuildAlerts(al_hazards, o, 1, al_speed)),
                al_max_alerts) :
        o \in ByDistance(al_hazards,
                  NearbyActive(al_hazards,
                      calculate_alert_distance(al_speed, 1000))) }

\* C17: the response is the top max_alerts entries, in non-increasing
\* priority, of the suppressed list made from every active hazard that is
\* within the search radius and in range; its first alert is an in-range
\* active hazard of the highest priority.
C17_TopOfAllInRange ==
    al_done =>
        /\ al_top \in C17_Reference
        /\ \A i \in DOMAIN al_top : \A j \in DOMAIN al_top :
              i <= j => al_top[i].priority >= al_top[j].priority
        /\ C17_InRangeActive # {} =>
              /\ al_top # <<>>
              /\ \A h \in C17_InRangeActive :
                    al_top[1].priority >= AlertOf(al_hazards, h).priority

\* C18: an alert of the response is an active hazard no farther than its
\* own trigger distance; the search radius is at least the trigger distance
\* of every hazard, and every active in-range hazard is among the rows of
\* the candidate query; at 20 m/s a hazard of severity 8 has a trigger
\* distance of 360 m and is in range at 300 m.
C18_ResultInRange ==
    \A i \in DOMAIN al_top :
        /\ al_top[i].hazard_id \in DOMAIN al_hazards
        /\ al_hazards[al_top[i].hazard_id].is_active
        /\ al_top[i].distance * 10
               <= calculate_alert_distance(al_speed, al_top[i].severity)

C18_RadiusCoversTriggers ==
    \A h \in DOMAIN al_hazards :
        /\ calculate_alert_distance(al_speed, 1000)
               >= calculate_alert_distance(al_speed, al_hazards[h].severity)
        /\ (al_hazards[h].is_active /\ InRange(al_hazards, h, al_speed)) =>
               h \in NearbyActive(al_hazards,
                         calculate_alert_distance(al_speed, 1000))

C18_Scenario ==
    \A h \in DOMAIN al_hazards :
        (al_speed = 20 /\ al_hazards[h].severity = 800) =>
            /\ calculate_alert_distance(al_speed, al_hazards[h].severity) = 3600
            /\ ST_Distance(al_hazards[h]) = 300 => InRange(al_hazards, h, al_speed)

C18_OnlyInRangeAndNoneMissed ==
    al_done =>
        /\ C18_ResultInRange
        /\ C18_RadiusCoversTriggers
        /\ C18_Scenario
        /\ \A h \in C17_InRangeActive : h \in Range(al_rows)

\* at most one verification row per (hazard, user) pair
AtMostOnePerPair ==
    \A i \in DOMAIN verifications : \A j \in DOMAIN verifications :
        (/\ verifications[i].hazard_id = verifications[j].hazard_id
         /\ verifications[i].user_id = verifications[j].user_id) => i = j

\* the step in which request r is received and checked
Checking(r) ==
    /\ vpc[r] = "idle"
    /\ <<v_req[r], v_resp[r], vpc[r]>> # <<v_req'[r], v_resp'[r], vpc'[r]>>

\* the pair has a committed verification row
C19_HasVerification(hazard_id, user_id) ==
    \E i \in DOMAIN verifications :
        /\ verifications[i].hazard_id = hazard_id
        /\ verifications[i].user_id = user_id

\* C19: a verify request for a pair that has a verification, or for a
\* hazard that does not exist, is rejected and changes neither the
\* verification rows nor the hazard; so as long as the requests run one
\* after the other there is at most one row per (hazard, user) pair.
C19_DuplicateIsRejected ==
    /\ [][\A r \in Requests : Checking(r) =>
             LET req == v_req'[r]
             IN  (\/ req.hazard_id \notin DOMAIN hazards
                  \/ C19_HasVerification(req.hazard_id, req.user_id)) =>
                     /\ v_resp'[r] \in {400, 404, 500}
                     /\ vpc'[r] = "idle"
                     /\ verifications' = verifications
                     /\ hazards' = hazards]_vars
    /\ [](~v_overlap => AtMostOnePerPair)

\* requests run one after the other: a second vote of a user was rejected,
\* so was a vote on a hazard that does not exist
C19_Witness ==
    /\ ~v_overlap
    /\ \A r \in Requests : vpc[r] = "idle"
    /\ v_resp[1] = 400
    /\ C19_HasVerification(v_req[1].hazard_id, v_req[1].user_id)
    /\ Len(verifications) = 2
    /\ hazards[1].verification_count = 2

\* C20: whatever the interleaving of the verify requests, every committed
\* state has at most one verification row per (hazard, user) pair.
C20_OnePerPairUnderConcurrency == AtMostOnePerPair

\* C21: a pass never modifies or deletes a hazard that existed before it:
\* in every step every hazard row of the table is still there with every
\* field as it was; a commit only adds rows under new ids.
C21_PassOnlyInsertsHazards ==
    [][/\ \A h \in DOMAIN hazards :
              h \in DOMAIN hazards' /\ hazards'[h] = hazards[h]
       /\ \A p \in Passes : Committing(p) =>
              DOMAIN hazards' = DOMAIN hazards \cup DOMAIN sess_new[p]]_vars

\* a pass has committed a second hazard at the place of a hazard that was
\* there before: both rows stand, each with the detections it was made from
C21_Witness ==
    /\ \E p \in Passes : pc[p] = "done" /\ result[p] # NoopResult
                         /\ result[p].hazards_created = 1
    /\ \E g, h \in DOMAIN hazards :
        /\ g < h
        /\ hazards[g].latitude = hazards[h].latitude
        /\ Cardinality(LinkedTo(dets, g)) = hazards[g].detection_count
        /\ Cardinality(LinkedTo(dets, h)) = hazards[h].detection_count

\* hazard h is active, older than the decay window and of low confidence
C22_Stale(h) ==
    /\ h \in DOMAIN hazards
    /\ hazards[h].is_active
    /\ now - hazards[h].last_detected > CONFIDENCE_DECAY_DAYS
    /\ ongoing_confidence(hazards[h]) < 300

\* C22: every active hazard whose last detection is older than the decay
\* window and whose ongoing confidence is below 0.3 is eventually inactive
\* (and still in the table).
C22_StaleIsDeactivated ==
    \A h \in VerifyHazardIds :
        C22_Stale(h) ~> (h \in DOMAIN hazards /\ ~hazards[h].is_active)

C24_SquaredDeviations(m) ==
    LET n == Len(m)
        s == SumOver(1..n, m)
    IN  SumOver(1..n, [i \in 1..n |-> (n * m[i] - s) * (n * m[i] - s)])

C26_Message(alert) ==
    <<IF alert.severity >= 700 THEN "Severe"
      ELSE IF alert.severity >= 400 THEN "Moderate" ELSE "Minor",
      CASE alert.hazard_type = "pothole" -> "pothole"
        [] alert.hazard_type = "speed_bump" -> "speed bump"
        [] alert.hazard_type = "rough_road" -> "rough road"
        [] OTHER -> "road hazard",
      "ahead in",
      IF alert.distance < 1000 THEN <<alert.distance, "m">>
      ELSE <<(alert.distance + 50) \div 100, "km">> >>

\* C26: every alert of the ranking is returned with the message "<Severity>
\* <type> ahead in <distance>" of its severity, type and distance; a hazard
\* whose stored type is unknown or not a recognized type is returned too,
\* as "road hazard", and the request does not fail.
C26_EveryAlertHasItsMessage ==
    al_done =>
        /\ al_status = 200
        /\ Len(al_response) = Len(al_top)
        /\ \A i \in 1..Len(al_top) :
               /\ i \in DOMAIN al_response
               /\ al_response[i].hazard_id = al_top[i].hazard_id
               /\ al_response[i].message = C26_Message(al_top[i])

\* C27: every cluster the clustering step returns, and so every hazard made
\* of it (detection_count is the number of its detections), has at least
\* min_samples detections, also when a point is within eps of core points
\* of two clusters.
C27_ClustersReachMinimum ==
    \A k \in 1..Len(cl_last) : Len(cl_last[k]) >= cl_min_samples

\* the number of detections with processed = false in a detections table
C28_Pending(table) == Cardinality({ d \in DOMAIN table : ~table[d].processed })

\* C28: when passes are started again and again, then once the uploads have
\* stopped a state is reached where no detection is unprocessed, for good;
\* every pass that fetched a non-empty batch leaves fewer unprocessed
\* detections than it found when it commits; and a pass started when
\* nothing is unprocessed is a no-op.
C28_PassesDrainUnprocessed ==
    /\ ([]<><<\E p \in Passes : Starting(p)>>_vars) => <>[](C28_Pending(dets) = 0)
    /\ [][\A p \in Passes : (Committing(p) /\ unprocessed[p] # {}) =>
              C28_Pending(dets') < C28_Pending(dets)]_vars
    /\ [][\A p \in Passes : (Starting(p) /\ C28_Pending(dets) = 0) =>
              /\ result'[p] = NoopResult
              /\ dets' = dets
              /\ hazards' = hazards]_vars

\* more detections than one pass fetches have all been processed, and the
\* pass that followed has returned the no-op summary
C28_Witness ==
    /\ Len(dets) > FetchLimit
    /\ C28_Pending(dets) = 0
    /\ \E p \in Passes : pc[p] = "done" /\ result[p] = NoopResult
    /\ last_pass.quiet

\* C29: when a pass that fetched a non-empty batch commits, its summary has
\* detections_processed + detections_marked_noise = detections_total; its
\* clusters are pairwise disjoint; every fetched detection is either in a
\* cluster or noise; and the counts are those of the rows the pass wrote:
\* the detections linked to its new hazards, and the fetched detections it
\* marked processed without a hazard.
C29_SummaryAddsUp ==
    [][\A p \in Passes : Committing(p) =>
          LET new == DOMAIN hazards' \ DOMAIN hazards
              linked == { d \in DetIds : dets'[d].hazard_id \in new }
              marked == { d \in unprocessed[p] \ linked : dets'[d].processed }
          IN  /\ result'[p].detections_total = Cardinality(unprocessed[p])
              /\ result'[p].detections_processed
                     + result'[p].detections_marked_noise
                   = result'[p].detections_total
              /\ \A j, k \in 1..Len(clusters[p]) :
                     j # k => clusters[p][j] \cap clusters[p][k] = {}
              /\ ClusteredIds(p) \subseteq unprocessed[p]
              /\ linked = ClusteredIds(p)
              /\ marked = unprocessed[p] \ ClusteredIds(p)
              /\ result'[p].detections_processed = Cardinality(linked)
              /\ result'[p].detections_marked_noise = Cardinality(marked)]_vars

\* a pass has returned a summary that counts clustered detections and noise
C29_Witness ==
    \E p \in Passes :
        /\ pc[p] = "done"
        /\ result[p] # NoopResult
        /\ result[p].detections_marked_noise >= 1
        /\ result[p].detections_processed >= 2
        /\ result[p].detections_processed + result[p].detections_marked_noise
               = result[p].detections_total

\* the verification rows of hazard h
C30_Rows(h) == { i \in DOMAIN verifications : verifications[i].hazard_id = h }

\* C30: in every committed state, whatever the interleaving of the verify
\* requests, verification_count of a hazard is the number of its
\* verification rows, positive_verifications the number of those with
\* is_valid = true, and 0 <= positive_verifications <= verification_count.
C30_CountsMatchRows ==
    \A h \in DOMAIN hazards :
        /\ hazards[h].verification_count = Cardinality(C30_Rows(h))
        /\ hazards[h].positive_verifications
               = Cardinality({ i \in C30_Rows(h) : verifications[i].is_valid })
        /\ 0 <= hazards[h].positive_verifications
        /\ hazards[h].positive_verifications <= hazards[h].verification_count

====
